---- MODULE Spec2Model ----
(***************************************************************************)
(* Order management backend: order creation (idempotency lookup,           *)
(* customer / product / stock validation, totals, persistence, stock       *)
(* decrement, commit) over a transactional store, and the order lifecycle  *)
(* (CREATED -> PAID | CANCELLED).                                          *)
(*                                                                         *)
(* The store is modelled as committed rows (products, customers, orders)   *)
(* plus, per database session, the rows written by flush() that are not    *)
(* committed yet (tx).  commit() moves a session's pending rows into the   *)
(* committed rows, rollback() drops them.  Money is a Decimal with two     *)
(* places, held as an integer number of cents.                             *)
(*                                                                         *)
(* Specifications: Spec (order creation, one request at a time),           *)
(* SpecLifecycle (several keys and the entity lifecycle), SpecConcurrent   *)
(* (two requests at once), SpecStore (the Order Store's operations and the *)
(* lifecycle use cases on their own), SpecCatalog (price changes and       *)
(* inactive customer rows), SpecPaging (list_orders), SpecKeys (updates    *)
(* with changed keys), SpecAdmin (product edits, product and customer      *)
(* deletes), SpecItems (item validation) and SpecCustomers (customer       *)
(* creates and updates).                                                   *)
(***************************************************************************)
EXTENDS Integers, Sequences, FiniteSets, TLC

\* ---------------------------------------------------------------- bounds
MaxQty == 2
MaxItems == 2

\* ------------------------------------------------------------ the domain
Sessions == {"s1", "s2"}
SeqSessions == {"s1"}
Keys == {"k1", "k2"}
StoredProducts == {1, 2}
RequestProducts == {1, 2, 3}
StoredCustomers == {1, 2}
RequestCustomers == {1, 2, 3}
InitPrice == <<850, 1290>>
InitStock == <<2, 1>>

\* Customer documents are strings, held as sequences of characters: a CPF of
\* eleven times one digit, as digits and as it is written (000.000.000-00).
Digits == {"0", "1", "2", "3", "4", "5", "6", "7", "8", "9"}
CPF(digit) == [k \in 1..11 |-> digit]
Written(cpf) ==
    SubSeq(cpf, 1, 3) \o <<".">> \o SubSeq(cpf, 4, 6) \o <<".">> \o SubSeq(cpf, 7, 9)
        \o <<"-">> \o SubSeq(cpf, 10, 11)
InitEmail == <<"a@x.com", "b@x.com">>
InitDocument == <<CPF("1"), CPF("2")>>

CREATED == "CREATED"
PAID == "PAID"
CANCELLED == "CANCELLED"
OrderStatus == {CREATED, PAID, CANCELLED}

None == [none |-> TRUE]

ItemLists == UNION {[1..n -> [product_id : RequestProducts, quantity : 1..MaxQty]] : n \in 1..MaxItems}
OrderCreate == [customer_id : RequestCustomers, items : ItemLists]
OneLineOrders == {order_data \in OrderCreate : Len(order_data.items) = 1}

\* ------------------------------------------------------------- variables
VARIABLES products, customers, orders, call, tx, trace, entity, request

vars == <<products, customers, orders, call, tx, trace, entity, request>>

\* ------------------------------------------------------- Decimal and str
\* str(Decimal) of a two-place value: the digits before and after the point.
StrOfDecimal(d) == <<d \div 100, d % 100>>

\* Variant: a parse that drops the digits after the point.
DecimalOfStr_truncated(s) == s[1] * 100

\* Decimal(str): the value of "<units>.<cents>".
DecimalOfStr(s) == s[1] * 100 + s[2]

\* ------------------------------------------------------ OrderItemEntity
calculate_line_total(unit_price, quantity) == unit_price * quantity

OrderItemEntity(product_id, unit_price, quantity, line_total) ==
    [product_id |-> product_id, unit_price |-> unit_price, quantity |-> quantity,
     line_total |-> IF line_total = 0 THEN calculate_line_total(unit_price, quantity)
                    ELSE line_total]

\* Variant: validate() does not compare the line total.
OrderItemEntity_validate_no_total(item) ==
    IF item.product_id <= 0 THEN "ValueError"
    ELSE IF item.unit_price <= 0 THEN "ValueError"
    ELSE IF item.quantity <= 0 THEN "ValueError"
    ELSE "ok"

\* "ok" or the ValueError the checks raise, in the order of the checks.
OrderItemEntity_validate(item) ==
    IF item.product_id <= 0 THEN "ValueError"
    ELSE IF item.unit_price <= 0 THEN "ValueError"
    ELSE IF item.quantity <= 0 THEN "ValueError"
    ELSE IF item.line_total # calculate_line_total(item.unit_price, item.quantity) THEN "ValueError"
    ELSE "ok"

\* ----------------------------------------------------------- OrderEntity
OrderEntity(id, customer_id, total_amount, status, idempotency_key, items) ==
    [id |-> id, customer_id |-> customer_id, total_amount |-> total_amount,
     status |-> status, idempotency_key |-> idempotency_key, items |-> items]

OrderEntity_validate(order) ==
    IF order.customer_id <= 0 THEN "ValueError"
    ELSE IF order.total_amount < 0 THEN "ValueError"
    ELSE IF order.status \notin OrderStatus THEN "ValueError"
    ELSE IF Len(order.items) = 0 THEN "ValueError"
    ELSE "ok"

\* Variant: a paid order may be cancelled too.
can_be_cancelled_or_paid(order) == order.status \in {CREATED, PAID}

can_be_cancelled(order) == order.status \in {CREATED}

\* Variant: cancel() assigns the status before it checks.
cancel_assigns_first(order) ==
    IF ~can_be_cancelled(order)
    THEN [order |-> [order EXCEPT !.status = CANCELLED], error |-> "ValueError",
          message |-> order.status]
    ELSE [order |-> [order EXCEPT !.status = CANCELLED], error |-> "none", message |-> "none"]

\* cancel(): the entity afterwards and the error raised ("none" on success);
\* the ValueError message carries the current status.
cancel(order) ==
    IF ~can_be_cancelled(order)
    THEN [order |-> order, error |-> "ValueError", message |-> order.status]
    ELSE [order |-> [order EXCEPT !.status = CANCELLED], error |-> "none", message |-> "none"]

\* mark_as_paid(): as cancel(); the message is fixed text.
mark_as_paid(order) ==
    IF order.status # CREATED
    THEN [order |-> order, error |-> "ValueError", message |-> "none"]
    ELSE [order |-> [order EXCEPT !.status = PAID], error |-> "none", message |-> "none"]

\* -------------------------------------------------- sums over item lists
RECURSIVE SumQuantity(_, _)
\* The quantity the lines of items ask of product p, all lines together.
SumQuantity(items, p) ==
    IF Len(items) = 0 THEN 0
    ELSE (IF items[1].product_id = p THEN items[1].quantity ELSE 0) + SumQuantity(Tail(items), p)

RECURSIVE SumLineTotal(_)
SumLineTotal(items) ==
    IF Len(items) = 0 THEN 0 ELSE items[1].line_total + SumLineTotal(Tail(items))

\* ------------------------------------------------- sessions and the store
NoRows == [p \in StoredProducts |-> None]

\* What a query of session s sees of product row p: its own flushed row,
\* else the committed one.
Row(s, p) == IF tx[s][p] # None THEN tx[s][p] ELSE products[p]

\* Session.commit(): the session's flushed rows become the committed rows.
commit(s) == [p \in StoredProducts |-> Row(s, p)]

\* ---------------------------------------------------- ProductRepository
ProductRepository_to_entity(id, row) ==
    [id |-> id, price |-> row.price, stock_qty |-> row.stock_qty, is_active |-> row.is_active]

ProductRepository_get_by_id(s, product_id) ==
    IF product_id \notin StoredProducts THEN None
    ELSE ProductRepository_to_entity(product_id, Row(s, product_id))

\* update(product): the row flushed for the entity's id.  Product rows are
\* never removed and the callers modelled here leave the sku as it is, so
\* neither ProductNotFoundException nor DuplicateSKUException is raised.
ProductRepository_update(product) ==
    [price |-> product.price, stock_qty |-> product.stock_qty, is_active |-> product.is_active]

\* --------------------------------------------------- CustomerRepository
\* _to_entity passes no is_active, so the entity takes the constructor default.
CustomerRepository_to_entity(id, row) ==
    [id |-> id, email |-> row.email, document |-> row.document, is_active |-> TRUE]

CustomerRepository_get_by_id(customer_id) ==
    IF customer_id \notin DOMAIN customers THEN None
    ELSE CustomerRepository_to_entity(customer_id, customers[customer_id])

\* ------------------------------------------------------ OrderRepository
\* Variant: the unit prices are looked up in the catalog when the order is
\* loaded.
OrderRepository_to_entity_repriced(db_order) ==
    LET items == [k \in 1..Len(db_order.items) |->
                     OrderItemEntity(db_order.items[k].product_id,
                                     products[db_order.items[k].product_id].price,
                                     db_order.items[k].quantity, 0)]
    IN OrderEntity(db_order.id, db_order.customer_id, SumLineTotal(items),
                   db_order.status, db_order.idempotency_key, items)

OrderRepository_to_entity(db_order) ==
    OrderEntity(db_order.id, db_order.customer_id, db_order.total_amount,
                db_order.status, db_order.idempotency_key,
                [k \in 1..Len(db_order.items) |->
                    OrderItemEntity(db_order.items[k].product_id, db_order.items[k].unit_price,
                                    db_order.items[k].quantity, db_order.items[k].line_total)])

OrderRepository_get_by_id(order_id) ==
    IF order_id \in 1..Len(orders) THEN OrderRepository_to_entity(orders[order_id]) ELSE None

\* Variant: a lookup that compares the key with the wrong column.
OrderRepository_get_by_idempotency_key_never(idempotency_key) == None

OrderRepository_get_by_idempotency_key(idempotency_key) ==
    IF \E k \in 1..Len(orders) : orders[k].idempotency_key = idempotency_key
    THEN OrderRepository_to_entity(
             orders[CHOOSE k \in 1..Len(orders) :
                        /\ orders[k].idempotency_key = idempotency_key
                        /\ \A j \in 1..(k - 1) : orders[j].idempotency_key # idempotency_key])
    ELSE None

\* The header and item rows create() inserts; the id is the generated key.
OrderRepository_create_row(order) ==
    [id |-> Len(orders) + 1, customer_id |-> order.customer_id,
     total_amount |-> order.total_amount, status |-> order.status,
     idempotency_key |-> order.idempotency_key,
     items |-> [k \in 1..Len(order.items) |->
                   [product_id |-> order.items[k].product_id,
                    unit_price |-> order.items[k].unit_price,
                    quantity |-> order.items[k].quantity,
                    line_total |-> order.items[k].line_total]]]

\* Variant: update() writes the entity's idempotency_key as well.
OrderRepository_update_row_rekeyed(db_order, order) ==
    [db_order EXCEPT !.customer_id = order.customer_id,
                     !.total_amount = order.total_amount,
                     !.status = order.status,
                     !.idempotency_key = order.idempotency_key]

\* The row update() leaves for the stored order with the entity's id.
OrderRepository_update_row(db_order, order) ==
    [db_order EXCEPT !.customer_id = order.customer_id,
                     !.total_amount = order.total_amount,
                     !.status = order.status]

\* ------------------------------------------------------------ call state
\* One create_order call of a session: where it stands (pc), its arguments
\* and locals, and its outcome.
IdleCall ==
    [pc |-> "idle", order_data |-> None, idempotency_key |-> "", i |-> 0,
     items_entities |-> <<>>, total_amount |-> 0, product |-> None,
     created_order |-> None, result |-> "none", returned |-> None]

\* What the call did to its collaborators: the committed rows when it began
\* (pre), the calls it made to the stores and to the session, and the
\* aggregate it handed to OrderRepository.create.
NoTrace ==
    [pre |-> None, hit |-> FALSE, customer_reads |-> <<>>, product_reads |-> <<>>,
     creates |-> 0, updates |-> 0, commits |-> 0, rollbacks |-> 0, handed |-> None]

AllIdle == \A s \in Sessions : call[s].pc = "idle"

\* The call ends by raising error after n rollbacks of its session; done is
\* the record of what the call did up to the raise.
Raise(s, error, n, done) ==
    /\ call' = [call EXCEPT ![s].pc = "done", ![s].result = error]
    /\ tx' = [tx EXCEPT ![s] = NoRows]
    /\ trace' = [done EXCEPT ![s].rollbacks = @ + n]

Init ==
    /\ products = [p \in StoredProducts |->
                      [price |-> InitPrice[p], stock_qty |-> InitStock[p], is_active |-> TRUE]]
    /\ customers = [c \in StoredCustomers |->
                       [email |-> InitEmail[c], document |-> InitDocument[c], is_active |-> TRUE]]
    /\ orders = <<>>
    /\ call = [s \in Sessions |-> IdleCall]
    /\ tx = [s \in Sessions |-> NoRows]
    /\ trace = [s \in Sessions |-> NoTrace]
    /\ entity = None
    /\ request = None

\* ---------------------------------------------- OrderUseCases.create_order
\* Variant: the existing order is returned only to a payload of its customer.
key_wins_same_customer(existing_order, order_data) ==
    existing_order # None /\ existing_order.customer_id = order_data.customer_id

\* "if existing_order:" -- the key alone decides, whatever the payload.
key_wins(existing_order, order_data) == existing_order # None

\* Variant: the stock check off by one.
insufficient_stock_off_by_one(product, quantity) == product.stock_qty + 1 < quantity

\* "if product.stock_qty < item_data.quantity:"
insufficient_stock(product, quantity) == product.stock_qty < quantity

\* Variant: the decrement applied only while the stock covers the quantity.
decrement_if_available(product, quantity) ==
    IF product.stock_qty >= quantity THEN [product EXCEPT !.stock_qty = @ - quantity] ELSE product

\* Variant: the stock is looked at before the active flag.
product_checks_stock_first(product, quantity) ==
    IF product = None THEN "ProductNotFoundException"
    ELSE IF insufficient_stock(product, quantity) THEN "InsufficientStockException"
    ELSE IF ~product.is_active THEN "ValueError"
    ELSE "ok"

\* The checks of one line, in the order of the code: the product exists, is
\* active, has the stock; "ok" or the error raised.
product_checks(product, quantity) ==
    IF product = None THEN "ProductNotFoundException"
    ELSE IF ~product.is_active THEN "ValueError"
    ELSE IF insufficient_stock(product, quantity) THEN "InsufficientStockException"
    ELSE "ok"

\* Variant: one unit taken per line, whatever the quantity.
decrement_one(product, quantity) == [product EXCEPT !.stock_qty = @ - 1]

\* "product.stock_qty -= item_data.quantity"
decrement(product, quantity) == [product EXCEPT !.stock_qty = @ - quantity]

\* Step 1: the idempotency lookup; an existing order is returned as it is.
create_order_lookup(s, order_data, idempotency_key) ==
    /\ call[s].pc = "idle"
    /\ entity = None
    /\ LET existing_order == OrderRepository_get_by_idempotency_key(idempotency_key)
           begun == [NoTrace EXCEPT !.pre = [products |-> products, orders |-> orders]]
       IN IF key_wins(existing_order, order_data)
          THEN /\ call' = [call EXCEPT ![s] = [IdleCall EXCEPT !.pc = "done",
                                                 !.order_data = order_data,
                                                 !.idempotency_key = idempotency_key,
                                                 !.result = "ok",
                                                 !.returned = existing_order]]
               /\ trace' = [trace EXCEPT ![s] = [begun EXCEPT !.hit = TRUE]]
          ELSE /\ call' = [call EXCEPT ![s] = [IdleCall EXCEPT !.pc = "customer",
                                                 !.order_data = order_data,
                                                 !.idempotency_key = idempotency_key]]
               /\ trace' = [trace EXCEPT ![s] = begun]
    /\ UNCHANGED <<products, customers, orders, tx, entity, request>>

\* Step 2: the customer must exist and be active.
create_order_customer(s) ==
    /\ call[s].pc = "customer"
    /\ LET customer == CustomerRepository_get_by_id(call[s].order_data.customer_id)
           read == [trace EXCEPT ![s].customer_reads = Append(@, call[s].order_data.customer_id)]
       IN IF customer = None
          THEN /\ call' = [call EXCEPT ![s].pc = "done", ![s].result = "CustomerNotFoundException"]
               /\ trace' = [read EXCEPT ![s].rollbacks = @ + 1]
          ELSE IF ~customer.is_active
          THEN /\ call' = [call EXCEPT ![s].pc = "done", ![s].result = "ValueError"]
               /\ trace' = [read EXCEPT ![s].rollbacks = @ + 1]
          ELSE /\ call' = [call EXCEPT ![s].pc = "items", ![s].i = 1]
               /\ trace' = read
    /\ tx' = [tx EXCEPT ![s] = IF call'[s].pc = "done" THEN NoRows ELSE @]
    /\ UNCHANGED <<products, customers, orders, entity, request>>

\* Step 3, one turn of the loop: read the product of item i, check it, price
\* the line; after the last item build and validate the order (step 4).
create_order_item(s) ==
    /\ call[s].pc = "items"
    /\ LET item_data == call[s].order_data.items[call[s].i]
           product == ProductRepository_get_by_id(s, item_data.product_id)
           read == [trace EXCEPT ![s].product_reads =
                                     Append(@, [product_id |-> item_data.product_id, product |-> product])]
           failed(error) ==
               /\ call' = [call EXCEPT ![s].pc = "done", ![s].result = error]
               /\ trace' = [read EXCEPT ![s].rollbacks = @ + 1]
               /\ tx' = [tx EXCEPT ![s] = NoRows]
       IN IF product_checks(product, item_data.quantity) # "ok"
          THEN failed(product_checks(product, item_data.quantity))
          ELSE LET unit_price == DecimalOfStr(StrOfDecimal(product.price))
                   quantity == item_data.quantity
                   line_total == unit_price * quantity
                   total_amount == call[s].total_amount + line_total
                   item_entity == OrderItemEntity(item_data.product_id, unit_price, quantity, line_total)
                   items_entities == Append(call[s].items_entities, item_entity)
                   order_entity == OrderEntity(0, call[s].order_data.customer_id, total_amount,
                                               CREATED, call[s].idempotency_key, items_entities)
               IN IF OrderItemEntity_validate(item_entity) # "ok" THEN failed("ValueError")
                  ELSE IF call[s].i < Len(call[s].order_data.items)
                  THEN /\ call' = [call EXCEPT ![s].i = @ + 1,
                                               ![s].items_entities = items_entities,
                                               ![s].total_amount = total_amount]
                       /\ trace' = read
                       /\ tx' = tx
                  ELSE IF OrderEntity_validate(order_entity) # "ok" THEN failed("ValueError")
                  ELSE /\ call' = [call EXCEPT ![s].pc = "create",
                                               ![s].items_entities = items_entities,
                                               ![s].total_amount = total_amount]
                       /\ trace' = read
                       /\ tx' = tx
    /\ UNCHANGED <<products, customers, orders, entity, request>>

\* Step 5: OrderRepository.create inserts header and items and commits; a
\* failure (the unique idempotency_key, or the store) is rolled back there,
\* re-raised, and rolled back again by create_order.
create_order_create(s) ==
    /\ call[s].pc = "create"
    /\ \E storage_fails \in BOOLEAN :
         LET order_entity == OrderEntity(0, call[s].order_data.customer_id, call[s].total_amount,
                                         CREATED, call[s].idempotency_key, call[s].items_entities)
             db_order == OrderRepository_create_row(order_entity)
             called == [trace EXCEPT ![s].creates = @ + 1, ![s].handed = order_entity]
         IN IF \E k \in 1..Len(orders) : orders[k].idempotency_key = order_entity.idempotency_key
            THEN /\ Raise(s, "IntegrityError", 2, called)
                 /\ UNCHANGED <<products, orders>>
            ELSE IF storage_fails
            THEN /\ Raise(s, "OperationalError", 2, called)
                 /\ UNCHANGED <<products, orders>>
            ELSE /\ orders' = Append(orders, db_order)
                 /\ products' = commit(s)
                 /\ tx' = [tx EXCEPT ![s] = NoRows]
                 /\ call' = [call EXCEPT ![s].pc = "fetch", ![s].i = 1,
                                         ![s].created_order = OrderRepository_to_entity(db_order)]
                 /\ trace' = [called EXCEPT ![s].commits = @ + 1]
    /\ UNCHANGED <<customers, entity, request>>

\* Step 6, first half of one turn: re-read the product of item i and take
\* the quantity off the entity.
create_order_fetch(s) ==
    /\ call[s].pc = "fetch"
    /\ LET item_data == call[s].order_data.items[call[s].i]
           product == ProductRepository_get_by_id(s, item_data.product_id)
       IN IF product = None
          THEN Raise(s, "AttributeError", 1, trace)
          ELSE /\ call' = [call EXCEPT ![s].pc = "update",
                                       ![s].product = decrement(product, item_data.quantity)]
               /\ UNCHANGED <<tx, trace>>
    /\ UNCHANGED <<products, customers, orders, entity, request>>

\* Step 6, second half: ProductRepository.update flushes the row; the row is
\* locked by a session that flushed it until that session ends its
\* transaction.
create_order_update(s) ==
    /\ call[s].pc = "update"
    /\ \A t \in Sessions \ {s} : tx[t][call[s].product.id] = None
    /\ \E storage_fails \in BOOLEAN :
         LET product == call[s].product
             called == [trace EXCEPT ![s].updates = @ + 1]
         IN IF storage_fails
            THEN Raise(s, "OperationalError", 1, called)
            ELSE /\ tx' = [tx EXCEPT ![s][product.id] = ProductRepository_update(product)]
                 /\ trace' = called
                 /\ call' = [call EXCEPT ![s].product = None,
                                         ![s].i = @ + 1,
                                         ![s].pc = IF call[s].i < Len(call[s].order_data.items)
                                                   THEN "fetch" ELSE "commit"]
    /\ UNCHANGED <<products, customers, orders, entity, request>>

\* Step 7: the final commit.
create_order_commit(s) ==
    /\ call[s].pc = "commit"
    /\ \E storage_fails \in BOOLEAN :
         IF storage_fails
         THEN /\ Raise(s, "OperationalError", 1, trace)
              /\ UNCHANGED products
         ELSE /\ products' = commit(s)
              /\ tx' = [tx EXCEPT ![s] = NoRows]
              /\ trace' = [trace EXCEPT ![s].commits = @ + 1]
              /\ call' = [call EXCEPT ![s].pc = "done", ![s].result = "ok",
                                      ![s].returned = call[s].created_order]
    /\ UNCHANGED <<customers, orders, entity, request>>

\* The call has returned or raised; the request's session is closed.
create_order_return(s) ==
    /\ call[s].pc = "done"
    /\ call' = [call EXCEPT ![s] = IdleCall]
    /\ trace' = [trace EXCEPT ![s] = NoTrace]
    /\ tx' = [tx EXCEPT ![s] = NoRows]
    /\ UNCHANGED <<products, customers, orders, entity, request>>

\* The steps of a call that has passed the lookup.
create_order_steps(s) ==
    \/ create_order_customer(s)
    \/ create_order_item(s)
    \/ create_order_create(s)
    \/ create_order_fetch(s)
    \/ create_order_update(s)
    \/ create_order_commit(s)
    \/ create_order_return(s)

\* ------------------------------------------- ProductRepository.delete
\* Soft delete: the row stays, is_active becomes false, committed at once.
delete_product(product_id) ==
    /\ AllIdle
    /\ entity = None
    /\ product_id \in StoredProducts
    /\ products[product_id].is_active
    /\ products' = [products EXCEPT ![product_id].is_active = FALSE]
    /\ UNCHANGED <<customers, orders, call, tx, trace, entity, request>>

\* ------------------------------------------------------- order lifecycle
\* A lifecycle request holds one OrderEntity in memory: read by get_by_id,
\* changed by cancel() / mark_as_paid(), written back by update().
get_by_id(order_id) ==
    /\ AllIdle
    /\ entity = None
    /\ OrderRepository_get_by_id(order_id) # None
    /\ entity' = [order |-> OrderRepository_get_by_id(order_id), op |-> "get_by_id",
                  before |-> OrderRepository_get_by_id(order_id).status,
                  error |-> "none", message |-> "none"]
    /\ UNCHANGED <<products, customers, orders, call, tx, trace, request>>

entity_cancel ==
    /\ entity # None
    /\ LET r == cancel(entity.order)
       IN entity' = [order |-> r.order, op |-> "cancel", before |-> entity.order.status,
                     error |-> r.error, message |-> r.message]
    /\ UNCHANGED <<products, customers, orders, call, tx, trace, request>>

entity_mark_as_paid ==
    /\ entity # None
    /\ LET r == mark_as_paid(entity.order)
       IN entity' = [order |-> r.order, op |-> "mark_as_paid", before |-> entity.order.status,
                     error |-> r.error, message |-> r.message]
    /\ UNCHANGED <<products, customers, orders, call, tx, trace, request>>

\* OrderRepository.update writes the entity back and commits.
update ==
    /\ entity # None
    /\ orders' = [orders EXCEPT ![entity.order.id] = OrderRepository_update_row(@, entity.order)]
    /\ entity' = [order |-> OrderRepository_to_entity(orders'[entity.order.id]), op |-> "update",
                  before |-> entity.order.status, error |-> "none", message |-> "none"]
    /\ UNCHANGED <<products, customers, call, tx, trace, request>>

\* The lifecycle request ends.
release ==
    /\ entity # None
    /\ entity' = None
    /\ UNCHANGED <<products, customers, orders, call, tx, trace, request>>

\* ------------------------------------------------------- the Order Store
\* One call of an Order Store operation, or of a lifecycle use case, made on
\* its own: its arguments, the rows pending in its session, its outcome, the
\* table it works on as it was when the call began (pre) and the arguments
\* of the list_all query it made of the store.
\* The session get_db gives such a request.
RequestSession == "s2"

Request(op, pc) ==
    [op |-> op, pc |-> pc, order |-> None, order_id |-> 0, args |-> None, pre |-> orders,
     db_order |-> None, db_items |-> <<>>, flushes |-> 0, error |-> "none",
     returned |-> None, get_by_ids |-> 0, updates |-> 0, list_all |-> None]

\* The aggregates create_order builds (steps 3 and 4): priced lines, the sum
\* of the line totals, status CREATED; only those that pass validate() are
\* handed to create.
StoreItemLists ==
    {<<>>,
     <<OrderItemEntity(1, InitPrice[1], 1, 0)>>,
     <<OrderItemEntity(1, InitPrice[1], 1, 0), OrderItemEntity(2, InitPrice[2], 2, 0)>>}

StoreOrders ==
    {order \in {OrderEntity(0, 1, SumLineTotal(items), CREATED, idempotency_key, items) :
                    idempotency_key \in Keys, items \in StoreItemLists} :
        OrderEntity_validate(order) = "ok"}

\* Variant: the loop over order.items adds nothing.
OrderRepository_create_items_none(order_id, items) == <<>>

\* "for item in order.items: db_item = OrderItem(order_id=db_order.id, ...)"
OrderRepository_create_items(order_id, items) ==
    [k \in 1..Len(items) |->
        [order_id |-> order_id, product_id |-> items[k].product_id,
         unit_price |-> items[k].unit_price, quantity |-> items[k].quantity,
         line_total |-> items[k].line_total]]

\* The committed order of a flushed header and the item rows that point at it.
Committed(db_order, db_items) ==
    [id |-> db_order.id, customer_id |-> db_order.customer_id,
     total_amount |-> db_order.total_amount, status |-> db_order.status,
     idempotency_key |-> db_order.idempotency_key,
     items |-> [k \in 1..Len(db_items) |->
                   [product_id |-> db_items[k].product_id, unit_price |-> db_items[k].unit_price,
                    quantity |-> db_items[k].quantity, line_total |-> db_items[k].line_total]]]

\* create(), lines 27-34: the header is added and flushed, which gives it
\* its id; the unique idempotency_key or the store may refuse the insert.
OrderRepository_create(order) ==
    /\ AllIdle /\ entity = None /\ request = None
    /\ \E storage_fails \in BOOLEAN :
         IF \E k \in 1..Len(orders) : orders[k].idempotency_key = order.idempotency_key
         THEN request' = [Request("create", "done") EXCEPT !.order = order, !.error = "IntegrityError"]
         ELSE IF storage_fails
         THEN request' = [Request("create", "done") EXCEPT !.order = order, !.error = "OperationalError"]
         ELSE request' = [Request("create", "items") EXCEPT
                              !.order = order, !.flushes = 1,
                              !.db_order = [id |-> Len(orders) + 1, customer_id |-> order.customer_id,
                                            total_amount |-> order.total_amount, status |-> order.status,
                                            idempotency_key |-> order.idempotency_key]]
    /\ UNCHANGED <<products, customers, orders, call, tx, trace, entity>>

\* create(), lines 37-45: the item rows are added to the session.
OrderRepository_create_add ==
    /\ request # None /\ request.op = "create" /\ request.pc = "items"
    /\ request' = [request EXCEPT !.pc = "commit",
                                  !.db_items = OrderRepository_create_items(request.db_order.id,
                                                                            request.order.items)]
    /\ UNCHANGED <<products, customers, orders, call, tx, trace, entity>>

\* create(), lines 48-56: commit and reload; a failure rolls back the header
\* and the items together.
OrderRepository_create_commit ==
    /\ request # None /\ request.op = "create" /\ request.pc = "commit"
    /\ \E storage_fails \in BOOLEAN :
         IF storage_fails
         THEN /\ request' = [request EXCEPT !.pc = "done", !.error = "OperationalError",
                                            !.db_order = None, !.db_items = <<>>]
              /\ UNCHANGED orders
         ELSE /\ orders' = Append(orders, Committed(request.db_order, request.db_items))
              /\ request' = [request EXCEPT !.pc = "done", !.db_order = None, !.db_items = <<>>,
                                            !.returned = OrderRepository_to_entity(orders'[Len(orders')])]
    /\ UNCHANGED <<products, customers, call, tx, trace, entity>>

\* The entities handed to update(): any id, stored or not, and any customer,
\* total, status and item list, whatever the stored order holds.
UpdateOrders ==
    {OrderEntity(id, customer_id, total_amount, status,
                 IF id \in 1..Len(orders) THEN orders[id].idempotency_key ELSE "k1", items) :
         id \in 1..(Len(orders) + 1), customer_id \in StoredCustomers,
         total_amount \in {0, InitPrice[1]}, status \in OrderStatus, items \in {<<>>}}

\* update(), lines 96-107: OrderNotFoundException for an id that is not
\* stored, else the row is written from the entity and committed.
OrderRepository_update(order) ==
    /\ AllIdle /\ entity = None /\ request = None
    /\ IF OrderRepository_get_by_id(order.id) = None
       THEN /\ request' = [Request("update", "done") EXCEPT
                               !.order = order, !.error = "OrderNotFoundException"]
            /\ UNCHANGED orders
       ELSE /\ orders' = [orders EXCEPT ![order.id] = OrderRepository_update_row(@, order)]
            /\ request' = [Request("update", "done") EXCEPT
                               !.order = order,
                               !.returned = OrderRepository_to_entity(orders'[order.id])]
    /\ UNCHANGED <<products, customers, call, tx, trace, entity>>

\* An Optional[int] argument: None, or the int it holds.
Some(n) == [some |-> n]

\* "if customer_id:" -- None and 0 are both false.
filter_by_customer(customer_id) == customer_id # None /\ customer_id.some # 0

\* list_all(), lines 82-94: the filtered query, its count, then offset and
\* limit.
OrderRepository_list_all(skip, limit, customer_id) ==
    LET query == IF filter_by_customer(customer_id)
                 THEN SelectSeq(orders, LAMBDA db_order : db_order.customer_id = customer_id.some)
                 ELSE orders
        total == Len(query)
        last == IF skip + limit < Len(query) THEN skip + limit ELSE Len(query)
        db_orders == SubSeq(query, skip + 1, last)
    IN [orders |-> [k \in 1..Len(db_orders) |-> OrderRepository_to_entity(db_orders[k])],
        total |-> total]

Skips == 0..1
Limits == 1..2
CustomerFilters == {None} \cup {Some(n) : n \in 0..2}

list_all(skip, limit, customer_id) ==
    /\ AllIdle /\ entity = None /\ request = None
    /\ request' = [Request("list_all", "done") EXCEPT
                       !.args = [skip |-> skip, limit |-> limit, customer_id |-> customer_id],
                       !.returned = OrderRepository_list_all(skip, limit, customer_id)]
    /\ UNCHANGED <<products, customers, orders, call, tx, trace, entity>>

\* ------------------------------------------------ lifecycle use cases
\* The attributes of class OrderUseCases.
OrderUseCases_methods ==
    {"__init__", "create_order", "get_order_by_id", "list_orders", "_entity_to_response"}

\* use_cases.cancel_order(order_id) / use_cases.mark_as_paid(order_id), as
\* the routes and the tests call them: the attribute lookup on the instance
\* raises AttributeError before any repository is reached.
OrderUseCases_call(name, order_id) ==
    /\ AllIdle /\ entity = None /\ request = None
    /\ name \notin OrderUseCases_methods
    /\ request' = [Request(name, "done") EXCEPT !.order_id = order_id, !.error = "AttributeError"]
    /\ UNCHANGED <<products, customers, orders, call, tx, trace, entity>>

\* The caller has the outcome; get_db closes the request's session, which
\* rolls back whatever the session flushed and did not commit.
respond ==
    /\ request # None /\ request.pc = "done"
    /\ request' = None
    /\ tx' = [tx EXCEPT ![RequestSession] = NoRows]
    /\ UNCHANGED <<products, customers, orders, call, trace, entity>>

\* The Order Store on its own: its operations applied one at a time to the
\* aggregates create_order builds and to any entity, and the lifecycle use
\* cases called for stored and absent ids.
NextStore ==
    \/ \E order \in StoreOrders : OrderRepository_create(order)
    \/ OrderRepository_create_add
    \/ OrderRepository_create_commit
    \/ \E order \in UpdateOrders : OrderRepository_update(order)
    \/ \E skip \in Skips, limit \in Limits, customer_id \in CustomerFilters :
           list_all(skip, limit, customer_id)
    \/ \E name \in {"cancel_order", "mark_as_paid"}, order_id \in 1..(Len(orders) + 1) :
           OrderUseCases_call(name, order_id)
    \/ respond

SpecStore == Init /\ [][NextStore]_vars

\* ------------------------------------------------------------ list_orders
\* float(Decimal): the double nearest to an amount of d cents.
float(d) == [float |-> d]

\* _entity_to_response(), lines 338-361.
OrderUseCases_entity_to_response(order) ==
    [id |-> order.id, customer_id |-> order.customer_id,
     total_amount |-> float(order.total_amount), status |-> order.status,
     idempotency_key |-> order.idempotency_key,
     items |-> [k \in 1..Len(order.items) |->
                   [product_id |-> order.items[k].product_id,
                    unit_price |-> float(order.items[k].unit_price),
                    quantity |-> order.items[k].quantity,
                    line_total |-> float(order.items[k].line_total)]]]

\* "skip = (page - 1) * page_size"
list_orders_skip(page, page_size) == (page - 1) * page_size

\* Variant: the division rounds down.
list_orders_total_pages_floor(total, page_size) == total \div page_size

\* "total_pages = (total + page_size - 1) // page_size"
list_orders_total_pages(total, page_size) == (total + page_size - 1) \div page_size

\* OrderUseCases.list_orders(), lines 278-326.
OrderUseCases_list_orders(page, page_size, customer_id) ==
    LET skip == list_orders_skip(page, page_size)
        listed == OrderRepository_list_all(skip, page_size, customer_id)
    IN [list_all |-> [skip |-> skip, limit |-> page_size, customer_id |-> customer_id],
        response |-> [items |-> [k \in 1..Len(listed.orders) |->
                                    OrderUseCases_entity_to_response(listed.orders[k])],
                      total |-> listed.total, page |-> page, page_size |-> page_size,
                      total_pages |-> list_orders_total_pages(listed.total, page_size)]]

list_orders(page, page_size, customer_id) ==
    /\ AllIdle /\ entity = None /\ request = None
    /\ LET listing == OrderUseCases_list_orders(page, page_size, customer_id)
       IN request' = [Request("list_orders", "done") EXCEPT
                          !.args = [page |-> page, page_size |-> page_size,
                                    customer_id |-> customer_id],
                          !.list_all = listing.list_all,
                          !.returned = listing.response]
    /\ UNCHANGED <<products, customers, orders, call, tx, trace, entity>>

\* The pages asked for: "page: int = Query(1, ge=1)" and "page_size: int =
\* Query(20, ge=1, le=100)".
Pages == 1..3
PageSizes == 1..3
PagingKeys == {"k1", "k2", "k3", "k4", "k5"}

\* One-line orders of customer 1, one per idempotency key.
PagingOrders ==
    {OrderEntity(0, 1, InitPrice[1], CREATED, idempotency_key,
                 <<OrderItemEntity(1, InitPrice[1], 1, 0)>>) : idempotency_key \in PagingKeys}

\* The orders table filled one order at a time and listed page by page.
NextPaging ==
    \/ \E order \in PagingOrders : OrderRepository_create(order)
    \/ OrderRepository_create_add
    \/ OrderRepository_create_commit
    \/ \E page \in Pages, page_size \in PageSizes, customer_id \in {None, Some(1), Some(2)} :
           list_orders(page, page_size, customer_id)
    \/ respond

SpecPaging == Init /\ [][NextPaging]_vars

\* -------------------------------------------------- idempotency keys
KeyOrders ==
    {order_data \in OneLineOrders :
        order_data.customer_id = 1 /\ order_data.items[1].product_id = 1}

\* A stored order as get_by_id loads it, handed to update() after its caller
\* set the status and the idempotency_key of the entity.
RekeyedOrders ==
    {[OrderRepository_to_entity(orders[id]) EXCEPT !.idempotency_key = idempotency_key,
                                                   !.status = status] :
         id \in 1..Len(orders), idempotency_key \in Keys, status \in OrderStatus}

\* Orders created under two keys, taken through their lifecycle, and written
\* back by update() from entities whose key the caller changed.
NextKeys ==
    \/ \E s \in SeqSessions, order_data \in KeyOrders, idempotency_key \in Keys :
           create_order_lookup(s, order_data, idempotency_key)
    \/ \E s \in SeqSessions : create_order_steps(s)
    \/ \E order_id \in 1..Len(orders) : get_by_id(order_id)
    \/ entity_cancel
    \/ entity_mark_as_paid
    \/ update
    \/ release
    \/ \E order \in RekeyedOrders : OrderRepository_update(order)
    \/ respond

SpecKeys == Init /\ [][NextKeys]_vars

\* Order creation, one request at a time: every item list up to MaxItems
\* lines, retried and replayed under one idempotency key.  Once the key has
\* its order every call is a replay, whatever its payload; those calls
\* carry the one-line payloads.
Next ==
    \/ \E s \in SeqSessions, order_data \in OrderCreate :
           /\ orders = <<>> \/ order_data \in OneLineOrders
           /\ create_order_lookup(s, order_data, "k1")
    \/ \E s \in SeqSessions : create_order_steps(s)
    \/ \E p \in StoredProducts : delete_product(p)

Spec == Init /\ [][Next]_vars

\* Orders under several idempotency keys, one request at a time, and their
\* lifecycle: one-line orders.
NextLifecycle ==
    \/ \E s \in SeqSessions, order_data \in OneLineOrders, idempotency_key \in Keys :
           create_order_lookup(s, order_data, idempotency_key)
    \/ \E s \in SeqSessions : create_order_steps(s)
    \/ \E order_id \in 1..Len(orders) : get_by_id(order_id)
    \/ entity_cancel
    \/ entity_mark_as_paid
    \/ update
    \/ release

SpecLifecycle == Init /\ [][NextLifecycle]_vars

\* Two requests at once, each in its own session (get_db gives every request
\* a session of its own): one-line orders of customer 1 for stored products.
ConcurrentOrders ==
    {order_data \in OneLineOrders :
        /\ order_data.customer_id = 1
        /\ order_data.items[1].product_id \in StoredProducts}

NextConcurrent ==
    \/ \E s \in Sessions, order_data \in ConcurrentOrders, idempotency_key \in Keys :
           create_order_lookup(s, order_data, idempotency_key)
    \/ \E s \in Sessions : create_order_steps(s)

SpecConcurrent == Init /\ [][NextConcurrent]_vars

\* ------------------------------------------------------------ the catalog
\* The rows of the customers table as its schema admits them: is_active is
\* a column of its own, TRUE by default.
InitCatalog ==
    /\ products = [p \in StoredProducts |->
                      [price |-> InitPrice[p], stock_qty |-> InitStock[p], is_active |-> TRUE]]
    /\ customers \in {[c \in StoredCustomers |->
                          [email |-> InitEmail[c], document |-> InitDocument[c],
                           is_active |-> is_active[c]]] :
                         is_active \in [StoredCustomers -> BOOLEAN]}
    /\ orders = <<>>
    /\ call = [s \in Sessions |-> IdleCall]
    /\ tx = [s \in Sessions |-> NoRows]
    /\ trace = [s \in Sessions |-> NoTrace]
    /\ entity = None
    /\ request = None

Prices == {InitPrice[1], InitPrice[2], 990}

\* A committed change of a product's price in the Catalog Store, between
\* two requests.
Product_price_changes(product_id, price) ==
    /\ AllIdle /\ entity = None /\ request = None
    /\ products[product_id].price # price
    /\ products' = [products EXCEPT ![product_id].price = price]
    /\ UNCHANGED <<customers, orders, call, tx, trace, entity, request>>

CatalogOrders ==
    {order_data \in OneLineOrders :
        /\ order_data.customer_id \in StoredCustomers
        /\ order_data.items[1].product_id \in StoredProducts}

\* Orders placed, read back and replayed while the catalog changes its
\* prices, for customers stored active and inactive.
NextCatalog ==
    \/ \E s \in SeqSessions, order_data \in CatalogOrders :
           create_order_lookup(s, order_data, "k1")
    \/ \E s \in SeqSessions : create_order_steps(s)
    \/ \E product_id \in StoredProducts, price \in Prices : Product_price_changes(product_id, price)
    \/ \E order_id \in 1..Len(orders) : get_by_id(order_id)
    \/ release

SpecCatalog == InitCatalog /\ [][NextCatalog]_vars

\* ------------------------------------------- catalog and customer edits
\* ProductEntity.validate(), lines 44-48; the name and the sku, which the
\* edits modelled here leave alone, pass their checks.
ProductEntity_validate(product) ==
    IF product.price <= 0 THEN "ValueError"
    ELSE IF product.stock_qty < 0 THEN "ValueError"
    ELSE "ok"

\* "for field, value in update_data.items(): setattr(existing_product, field,
\* value)" over the fields the request set.
update_product_setattr(product, product_data) ==
    [product EXCEPT
        !.price = IF product_data.price # None THEN product_data.price.some ELSE @,
        !.stock_qty = IF product_data.stock_qty # None THEN product_data.stock_qty.some ELSE @,
        !.is_active = IF product_data.is_active # None THEN product_data.is_active.some ELSE @]

\* ProductUseCases.update_product through ProductRepository.update: the row
\* is flushed in the request's session and the entity read back from it is
\* returned; nothing is committed.
update_product(product_id, product_data) ==
    /\ AllIdle /\ entity = None /\ request = None
    /\ LET existing_product == ProductRepository_get_by_id(RequestSession, product_id)
           began == [Request("update_product", "done") EXCEPT
                         !.args = [product_id |-> product_id, product_data |-> product_data]]
       IN IF existing_product = None
          THEN /\ request' = [began EXCEPT !.error = "ProductNotFoundException"]
               /\ UNCHANGED tx
          ELSE LET product == update_product_setattr(existing_product, product_data)
               IN IF ProductEntity_validate(product) # "ok"
                  THEN /\ request' = [began EXCEPT !.error = "ValueError"]
                       /\ UNCHANGED tx
                  ELSE /\ tx' = [tx EXCEPT ![RequestSession][product_id] =
                                               ProductRepository_update(product)]
                       /\ request' = [began EXCEPT
                                          !.flushes = 1,
                                          !.returned = ProductRepository_to_entity(
                                                           product_id, tx'[RequestSession][product_id])]
    /\ UNCHANGED <<products, customers, orders, call, trace, entity>>

\* The fields an update request sets: a new price, a new stock, deactivation.
ProductUpdates ==
    [price : {None, Some(990), Some(0)},
     stock_qty : {None, Some(0), Some(3)},
     is_active : {None, Some(FALSE)}]

\* CustomerUseCases.delete_customer through CustomerRepository.delete: the
\* row is deleted and the delete committed.  The orders of the customer are
\* first detached from it (relationship "orders" has no delete cascade) and
\* orders.customer_id is NOT NULL, so a customer with orders is not deleted.
delete_customer(customer_id) ==
    /\ AllIdle /\ entity = None /\ request = None
    /\ LET began == [Request("delete_customer", "done") EXCEPT
                         !.args = [customer_id |-> customer_id]]
       IN IF customer_id \notin DOMAIN customers
          THEN /\ request' = [began EXCEPT !.returned = FALSE,
                                           !.error = "CustomerNotFoundException"]
               /\ UNCHANGED customers
          ELSE IF \E k \in 1..Len(orders) : orders[k].customer_id = customer_id
          THEN /\ request' = [began EXCEPT !.error = "IntegrityError"]
               /\ UNCHANGED customers
          ELSE /\ customers' = [c \in DOMAIN customers \ {customer_id} |-> customers[c]]
               /\ request' = [began EXCEPT !.returned = TRUE]
    /\ UNCHANGED <<products, orders, call, tx, trace, entity>>

\* Orders placed under two keys between the requests that edit and delete
\* products and delete customers, one request at a time, each in a session
\* of its own.
NextAdmin ==
    \/ \E s \in SeqSessions, order_data \in CatalogOrders, idempotency_key \in Keys :
           /\ request = None
           /\ create_order_lookup(s, order_data, idempotency_key)
    \/ \E s \in SeqSessions : create_order_steps(s)
    \/ \E product_id \in StoredProducts : delete_product(product_id)
    \/ \E customer_id \in RequestCustomers : delete_customer(customer_id)
    \/ \E product_id \in RequestProducts, product_data \in ProductUpdates :
           update_product(product_id, product_data)
    \/ respond

SpecAdmin == Init /\ [][NextAdmin]_vars

\* ------------------------------------------------------------ order items
\* OrderItemEntity(...).validate() called on its own: the item as the
\* constructor builds it, and what validate() raises.
validate(product_id, unit_price, quantity, line_total) ==
    /\ AllIdle /\ entity = None /\ request = None
    /\ LET item == OrderItemEntity(product_id, unit_price, quantity, line_total)
       IN request' = [Request("validate", "done") EXCEPT
                          !.args = [product_id |-> product_id, unit_price |-> unit_price,
                                    quantity |-> quantity, line_total |-> line_total],
                          !.order = item,
                          !.error = IF OrderItemEntity_validate(item) = "ok" THEN "none"
                                    ELSE OrderItemEntity_validate(item)]
    /\ UNCHANGED <<products, customers, orders, call, tx, trace, entity>>

\* The fields of the items validated: ids, prices and quantities below, at
\* and above zero; line totals not given (0), right and wrong.
ItemProductIds == {-1, 0, 1}
ItemPrices == {-InitPrice[1], 0, InitPrice[1]}
ItemQuantities == {-1, 0} \cup (1..MaxQty)
ItemLineTotals == {0, InitPrice[1], 2 * InitPrice[1], 999}

\* Items validated on their own between the orders create_order builds.
NextItems ==
    \/ \E s \in SeqSessions, order_data \in OrderCreate :
           /\ request = None
           /\ orders = <<>> \/ order_data \in OneLineOrders
           /\ create_order_lookup(s, order_data, "k1")
    \/ \E s \in SeqSessions : create_order_steps(s)
    \/ \E product_id \in ItemProductIds, unit_price \in ItemPrices,
          quantity \in ItemQuantities, line_total \in ItemLineTotals :
           validate(product_id, unit_price, quantity, line_total)
    \/ respond

SpecItems == Init /\ [][NextItems]_vars

\* ------------------------------------------------------------- customers
\* "re.sub(r'[^0-9]', '', document)"
format_document(document) == SelectSeq(document, LAMBDA ch : ch \in Digits)

\* "len(doc) in [11, 14]"
is_valid_document(document) == Len(format_document(document)) \in {11, 14}

\* CustomerBase / CustomerUpdate validate_document: the digits of a document
\* that has 11 or 14 of them.
CustomerBase_validate_document(v) == format_document(v)

\* validate_email returns "v.lower()".
CustomerBase_validate_email(v) == IF v = "C@X.COM" THEN "c@x.com" ELSE v

\* CustomerEntity.validate(), lines 33-42; names and the emails used here
\* pass their checks.
CustomerEntity_validate(customer) ==
    IF ~is_valid_document(customer.document) THEN "ValueError" ELSE "ok"

\* CustomerRepository.create: what it raises and the table it leaves.  The
\* two lookups compare the entity's email and document as given; the row is
\* inserted with the document reduced to digits, and the unique columns
\* refuse a second row with the same email or document at the commit.
CustomerRepository_create(customer) ==
    LET id == Cardinality(DOMAIN customers) + 1
        db_customer == [email |-> customer.email,
                        document |-> format_document(customer.document), is_active |-> TRUE]
        raised(error) == [error |-> error, customers |-> customers, returned |-> None]
    IN IF \E c \in DOMAIN customers : customers[c].email = customer.email
       THEN raised("DuplicateEmailException")
       ELSE IF \E c \in DOMAIN customers : customers[c].document = customer.document
       THEN raised("DuplicateDocumentException")
       ELSE IF \E c \in DOMAIN customers : customers[c].document = db_customer.document
       THEN raised("IntegrityError")
       ELSE [error |-> "none",
             customers |-> [c \in DOMAIN customers \cup {id} |->
                               IF c = id THEN db_customer ELSE customers[c]],
             returned |-> CustomerRepository_to_entity(id, db_customer)]

\* CustomerRepository.update: both lookups leave the customer's own row out,
\* and the document is reduced to digits before it is compared.
CustomerRepository_update(customer) ==
    LET raised(error) == [error |-> error, customers |-> customers, returned |-> None]
    IN IF customer.id \notin DOMAIN customers
       THEN raised("CustomerNotFoundException")
       ELSE LET db_customer == customers[customer.id]
                document == format_document(customer.document)
            IN IF /\ customer.email # db_customer.email
                  /\ \E c \in DOMAIN customers \ {customer.id} :
                         customers[c].email = customer.email
               THEN raised("DuplicateEmailException")
               ELSE IF /\ document # db_customer.document
                       /\ \E c \in DOMAIN customers \ {customer.id} :
                              customers[c].document = document
               THEN raised("DuplicateDocumentException")
               ELSE LET row == [db_customer EXCEPT !.email = customer.email,
                                                   !.document = document]
                    IN [error |-> "none",
                        customers |-> [customers EXCEPT ![customer.id] = row],
                        returned |-> CustomerRepository_to_entity(customer.id, row)]

\* A call of the Customer Store, or of a customer use case, with entity
\* customer: the request records the entity, the table before and the
\* outcome.
customer_request(op, customer, outcome) ==
    /\ request' = [Request(op, "done") EXCEPT
                       !.order = customer, !.pre = customers,
                       !.error = outcome.error, !.returned = outcome.returned]
    /\ customers' = outcome.customers
    /\ UNCHANGED <<products, orders, call, tx, trace, entity>>

\* CustomerRepository.create(customer) called with an entity that passes
\* CustomerEntity.validate().
repository_create(customer) ==
    /\ AllIdle /\ entity = None /\ request = None
    /\ CustomerEntity_validate(customer) = "ok"
    /\ customer_request("CustomerRepository.create", customer, CustomerRepository_create(customer))

\* CustomerRepository.update(customer), as repository_create.
repository_update(customer) ==
    /\ AllIdle /\ entity = None /\ request = None
    /\ CustomerEntity_validate(customer) = "ok"
    /\ customer_request("CustomerRepository.update", customer, CustomerRepository_update(customer))

\* CustomerUseCases.create_customer for a request body: the schema refuses a
\* document that has not 11 or 14 digits and passes on the others as their
\* digits; the entity is validated and created.
create_customer(email, document) ==
    /\ AllIdle /\ entity = None /\ request = None
    /\ IF ~is_valid_document(document)
       THEN /\ request' = [Request("create_customer", "done") EXCEPT
                               !.order = [id |-> 0, email |-> email, document |-> document],
                               !.pre = customers, !.error = "ValidationError"]
            /\ UNCHANGED <<products, customers, orders, call, tx, trace, entity>>
       ELSE LET customer_entity == [id |-> 0, email |-> CustomerBase_validate_email(email),
                                    document |-> CustomerBase_validate_document(document)]
            IN IF CustomerEntity_validate(customer_entity) # "ok"
               THEN customer_request("create_customer", customer_entity,
                                     [error |-> "ValueError", customers |-> customers,
                                      returned |-> None])
               ELSE customer_request("create_customer", customer_entity,
                                     CustomerRepository_create(customer_entity))

\* CustomerUseCases.update_customer for a request body that sets the
\* document: the customer is read, the field set, the entity validated and
\* updated.
update_customer(customer_id, document) ==
    /\ AllIdle /\ entity = None /\ request = None
    /\ is_valid_document(document)
    /\ LET existing_customer == CustomerRepository_get_by_id(customer_id)
       IN IF existing_customer = None
          THEN customer_request("update_customer",
                                [id |-> customer_id, email |-> "", document |-> document],
                                [error |-> "CustomerNotFoundException", customers |-> customers,
                                 returned |-> None])
          ELSE LET customer == [id |-> customer_id, email |-> existing_customer.email,
                                document |-> CustomerBase_validate_document(document)]
               IN IF CustomerEntity_validate(customer) # "ok"
                  THEN customer_request("update_customer", customer,
                                        [error |-> "ValueError", customers |-> customers,
                                         returned |-> None])
                  ELSE customer_request("update_customer", customer,
                                        CustomerRepository_update(customer))

\* The emails and documents sent: a third email in two spellings; three
\* CPFs, each as digits and as written, and a document too short.
Emails == {InitEmail[1], InitEmail[2], "c@x.com", "C@X.COM"}
Documents ==
    UNION {{CPF(digit), Written(CPF(digit))} : digit \in {"1", "2", "3"}} \cup {<<"1", "2", "3">>}
CustomerEntities == [id : 0..3, email : Emails, document : Documents]

\* Customers created and updated, through the use cases and at the Customer
\* Store itself, one request at a time.
NextCustomers ==
    \/ \E customer \in CustomerEntities : customer.id = 0 /\ repository_create(customer)
    \/ \E customer \in CustomerEntities : customer.id # 0 /\ repository_update(customer)
    \/ \E email \in Emails, document \in Documents : create_customer(email, document)
    \/ \E customer_id \in 1..3, document \in Documents : update_customer(customer_id, document)
    \/ respond

SpecCustomers == Init /\ [][NextCustomers]_vars

\* ======================================================================
\* Properties
\* ======================================================================
RECURSIVE Ordered(_, _)
\* The quantity of product p in the orders of a committed orders table.
Ordered(table, p) ==
    IF Len(table) = 0 THEN 0 ELSE SumQuantity(table[1].items, p) + Ordered(Tail(table), p)

InCall(s) == call[s].pc # "idle"
Done(s) == call[s].pc = "done"

\* The call's key belonged to an order committed when the call began.
Replay(s) ==
    /\ InCall(s)
    /\ \E k \in 1..Len(trace[s].pre.orders) :
           trace[s].pre.orders[k].idempotency_key = call[s].idempotency_key

\* The order that held the call's key when the call began.
Original(s) ==
    trace[s].pre.orders[CHOOSE k \in 1..Len(trace[s].pre.orders) :
                            trace[s].pre.orders[k].idempotency_key = call[s].idempotency_key]

StorageAsBefore(s) ==
    /\ products = trace[s].pre.products
    /\ orders = trace[s].pre.orders

\* C1: order insert and stock decrement commit as one unit -- in every
\* committed state the stock of each product is its initial stock less the
\* quantities of all committed orders, and a successful create_order that
\* created an order has committed exactly once.
C1_OrderAndStockCommitTogether ==
    /\ \A p \in StoredProducts : products[p].stock_qty = InitStock[p] - Ordered(orders, p)
    /\ \A s \in Sessions :
           (Done(s) /\ call[s].result = "ok" /\ ~Replay(s)) => trace[s].commits = 1

\* C2: a call whose idempotency key already belongs to a persisted order
\* returns that order (same id) without invoking OrderRepository.create, and
\* no two persisted orders share an idempotency key.
C2_IdempotentReplay ==
    /\ \A s \in Sessions :
           Replay(s) =>
               /\ trace[s].creates = 0
               /\ Done(s) => /\ call[s].result = "ok"
                             /\ call[s].returned.id = Original(s).id
    /\ \A j, k \in 1..Len(orders) :
           j # k => orders[j].idempotency_key # orders[k].idempotency_key

\* C2 witness: a replay has returned while two orders are stored and the
\* replayed one is not the first.
C2_Witness ==
    \E s \in Sessions :
        /\ Done(s) /\ Replay(s) /\ Len(orders) = 2
        /\ call[s].returned.id = 2

\* C3: a replay is a pure read -- it returns the original order's customer,
\* items and total whatever the new payload, reads neither the customer
\* store nor the catalog, and leaves stock and orders as they were.
C3_ReplayIsPureRead ==
    \A s \in Sessions :
        (Done(s) /\ Replay(s)) =>
            /\ call[s].result = "ok"
            /\ call[s].returned.customer_id = Original(s).customer_id
            /\ call[s].returned.items = Original(s).items
            /\ call[s].returned.total_amount = Original(s).total_amount
            /\ trace[s].customer_reads = <<>>
            /\ trace[s].product_reads = <<>>
            /\ trace[s].updates = 0
            /\ StorageAsBefore(s)

\* C3 witness: replays have returned to a payload that names another stored
\* customer and another product than the original order, and to a payload
\* that names a customer and a product that do not exist.
C3_Witness ==
    \E s \in Sessions :
        /\ Done(s) /\ Replay(s)
        /\ call[s].order_data.customer_id # call[s].returned.customer_id
        /\ call[s].order_data.items[1].product_id # call[s].returned.items[1].product_id
        /\ call[s].order_data.items[1].product_id \notin StoredProducts
        /\ call[s].order_data.customer_id \in StoredCustomers

\* C4: a create_order that raises leaves committed storage (orders, items,
\* every stock_qty) as it was before the call.
C4_FailureLeavesStorageUnchanged ==
    \A s \in Sessions :
        (Done(s) /\ call[s].result # "ok") => StorageAsBefore(s)

\* Some validation of the call fails on the rows committed when it began:
\* the customer is absent or inactive, or some line names a product that is
\* absent, inactive or short of stock.
ValidationFails(s) ==
    LET order_data == call[s].order_data
        rows == trace[s].pre.products
    IN \/ order_data.customer_id \notin StoredCustomers
       \/ ~customers[order_data.customer_id].is_active
       \/ \E k \in 1..Len(order_data.items) :
              LET p == order_data.items[k].product_id
              IN \/ p \notin StoredProducts
                 \/ ~rows[p].is_active
                 \/ rows[p].stock_qty < order_data.items[k].quantity

\* C5: when a validation of create_order fails, OrderRepository.create and
\* ProductRepository.update are never invoked, and the error reaches the
\* caller after exactly one rollback, storage being as before.
C5_ValidationFailureTouchesNothing ==
    \A s \in Sessions :
        (InCall(s) /\ ~Replay(s) /\ ValidationFails(s)) =>
            /\ trace[s].creates = 0
            /\ trace[s].updates = 0
            /\ Done(s) => /\ call[s].result # "ok"
                          /\ trace[s].rollbacks = 1
                          /\ StorageAsBefore(s)

\* C5 witness: the second line failed the stock check after the first line,
\* of another product, had passed.
C5_Witness ==
    \E s \in Sessions :
        /\ Done(s) /\ ~Replay(s)
        /\ call[s].result = "InsufficientStockException"
        /\ Len(trace[s].product_reads) = 2
        /\ call[s].order_data.items[1].product_id # call[s].order_data.items[2].product_id

\* C6: after a successful create_order with a fresh key every product's
\* stock is its prior stock less the total quantity the call asked of it
\* (products not named keep theirs), exactly one order was created, and
\* ProductRepository.update was invoked once per line.
C6_StockConservation ==
    \A s \in Sessions :
        (Done(s) /\ ~Replay(s) /\ call[s].result = "ok") =>
            /\ \A p \in StoredProducts :
                   products[p].stock_qty =
                       trace[s].pre.products[p].stock_qty - SumQuantity(call[s].order_data.items, p)
            /\ Len(orders) = Len(trace[s].pre.orders) + 1
            /\ trace[s].creates = 1
            /\ trace[s].updates = Len(call[s].order_data.items)

\* C6 witness: a two-line order of one product succeeded, taking two units,
\* while the product it does not name kept its stock.
C6_Witness ==
    \E s \in Sessions :
        /\ Done(s) /\ ~Replay(s) /\ call[s].result = "ok"
        /\ Len(call[s].order_data.items) = 2
        /\ SumQuantity(call[s].order_data.items, 1) = 2
        /\ products[1].stock_qty = 0
        /\ products[2].stock_qty = InitStock[2]

\* C7: every product's committed stock_qty stays >= 0.
C7_StockNeverNegative ==
    \A p \in StoredProducts : products[p].stock_qty >= 0

\* C8: in the aggregate handed to OrderRepository.create and in the order
\* persisted from it, each item's unit_price is the product's price read at
\* validation, each line_total is unit_price x quantity, and total_amount
\* is the sum of the line_totals.
C8_TotalsAreExact ==
    \A s \in Sessions :
        (InCall(s) /\ trace[s].handed # None) =>
            LET handed == trace[s].handed
                lines == call[s].order_data.items
            IN /\ Len(handed.items) = Len(lines)
               /\ \A k \in 1..Len(lines) :
                      /\ handed.items[k].product_id = lines[k].product_id
                      /\ handed.items[k].quantity = lines[k].quantity
                      /\ handed.items[k].unit_price = trace[s].product_reads[k].product.price
                      /\ handed.items[k].line_total = handed.items[k].unit_price * lines[k].quantity
               /\ handed.total_amount = SumLineTotal(handed.items)
               /\ call[s].created_order # None =>
                      LET stored == orders[call[s].created_order.id]
                      IN /\ stored.total_amount = handed.total_amount
                         /\ Len(stored.items) = Len(handed.items)
                         /\ \A k \in 1..Len(lines) :
                                /\ stored.items[k].product_id = handed.items[k].product_id
                                /\ stored.items[k].unit_price = handed.items[k].unit_price
                                /\ stored.items[k].quantity = handed.items[k].quantity
                                /\ stored.items[k].line_total = handed.items[k].line_total
                         /\ call[s].created_order.total_amount = handed.total_amount
                         /\ call[s].created_order.items = stored.items

\* C8 witness: an order of two units of product 1 and one unit of product 2
\* was created with total 2 x 8.50 + 12.90.
C8_Witness ==
    \E s \in Sessions :
        /\ Done(s) /\ ~Replay(s) /\ call[s].result = "ok"
        /\ Len(call[s].returned.items) = 2
        /\ call[s].returned.items[1].quantity = 2
        /\ call[s].returned.items[2].product_id = 2
        /\ call[s].returned.total_amount = 2 * InitPrice[1] + InitPrice[2]

LegalResult(op, before, after, error) ==
    IF before = CREATED
    THEN error = "none" /\ after = (IF op = "cancel" THEN CANCELLED ELSE PAID)
    ELSE error # "none" /\ after = before

\* C9: cancel() and mark_as_paid() succeed exactly when the status is
\* CREATED (giving CANCELLED, PAID); PAID and CANCELLED are terminal, so a
\* status, in memory or stored, changes only from CREATED; every status is
\* one of the three and every new order starts CREATED.
C9_Lifecycle ==
    /\ [](/\ \A k \in 1..Len(orders) : orders[k].status \in OrderStatus
          /\ entity # None =>
                 /\ entity.order.status \in OrderStatus
                 /\ entity.op \in {"cancel", "mark_as_paid"} =>
                        LegalResult(entity.op, entity.before, entity.order.status, entity.error))
    /\ [][/\ \A k \in 1..Len(orders) :
                 orders'[k].status # orders[k].status => orders[k].status = CREATED
          /\ (entity # None /\ entity' # None /\ entity'.order.status # entity.order.status) =>
                 entity.order.status = CREATED
          /\ Len(orders') > Len(orders) => orders'[Len(orders')].status = CREATED]_vars

\* C9 witness: cancel() was refused on an order stored as PAID while another
\* order is stored as CANCELLED.
C9_Witness ==
    /\ entity # None
    /\ entity.op = "cancel" /\ entity.before = PAID /\ entity.error # "none"
    /\ orders[entity.order.id].status = PAID
    /\ \E k \in 1..Len(orders) : orders[k].status = CANCELLED

\* C10: an illegal transition is signalled with its own error kind --
\* cancel() off CREATED fails with OrderCannotBeCancelled carrying the
\* current status, mark_as_paid() off CREATED with OrderCannotBePaid.
C10_IllegalTransitionErrorKinds ==
    (entity # None /\ entity.before # CREATED) =>
        /\ entity.op = "cancel" =>
               entity.error = "OrderCannotBeCancelledException" /\ entity.message = entity.before
        /\ entity.op = "mark_as_paid" => entity.error = "OrderCannotBePaidException"

\* A lifecycle use case has returned or raised.
LifecycleCall ==
    /\ request # None
    /\ request.op \in {"cancel_order", "mark_as_paid"}
    /\ request.pc = "done"

\* C11: cancel_order(id) and mark_as_paid(id) on a stored order in status
\* CREATED fetch the order by id once, persist the transition through
\* exactly one update, and return the order as CANCELLED respectively PAID;
\* get-by-id then gives that status.
C11_LifecycleUseCasesPersist ==
    (/\ LifecycleCall
     /\ request.order_id \in 1..Len(request.pre)
     /\ request.pre[request.order_id].status = CREATED) =>
        LET target == IF request.op = "cancel_order" THEN CANCELLED ELSE PAID
        IN /\ request.error = "none"
           /\ request.get_by_ids = 1
           /\ request.updates = 1
           /\ request.returned.status = target
           /\ OrderRepository_get_by_id(request.order_id).status = target

\* C12: cancel_order(id) and mark_as_paid(id) for an id with no stored order
\* fail with OrderNotFound, invoke no update and leave storage unchanged.
C12_LifecycleUseCasesNotFound ==
    (LifecycleCall /\ request.order_id \notin 1..Len(request.pre)) =>
        /\ request.error = "OrderNotFoundException"
        /\ request.updates = 0
        /\ orders = request.pre

\* C17: update(order) changes only the status of the stored order -- items,
\* total_amount and customer_id stay as stored whatever the entity carries,
\* other orders are untouched -- and update of an id that is not stored
\* fails with OrderNotFound without writing.
C17_UpdateWritesStatusOnly ==
    (request # None /\ request.op = "update" /\ request.pc = "done") =>
        IF request.order.id \in 1..Len(request.pre)
        THEN LET before == request.pre[request.order.id]
                 after == orders[request.order.id]
             IN /\ request.error = "none"
                /\ after.status = request.order.status
                /\ after.items = before.items
                /\ after.total_amount = before.total_amount
                /\ after.customer_id = before.customer_id
                /\ Len(orders) = Len(request.pre)
                /\ \A k \in 1..Len(orders) : k # request.order.id => orders[k] = request.pre[k]
        ELSE /\ request.error = "OrderNotFoundException"
             /\ orders = request.pre

\* C18: every committed order header has at least one item row, every item
\* row pending or committed points at its header, rows pending inside
\* create are not in committed storage, and a create that fails after the
\* header was flushed leaves neither the header nor any item.
C18_HeaderAndItemsTogether ==
    /\ \A k \in 1..Len(orders) : orders[k].id = k /\ Len(orders[k].items) >= 1
    /\ (request # None /\ request.op = "create") =>
           /\ request.pc \in {"items", "commit"} =>
                  /\ orders = request.pre
                  /\ request.db_order.id \notin 1..Len(orders)
           /\ \A j \in 1..Len(request.db_items) :
                  request.db_items[j].order_id = request.db_order.id
           /\ (request.pc = "done" /\ request.error # "none") =>
                  /\ orders = request.pre
                  /\ request.db_order = None
                  /\ request.db_items = <<>>
           /\ (request.pc = "done" /\ request.error = "none") =>
                  /\ Len(orders) = Len(request.pre) + 1
                  /\ Len(orders[Len(orders)].items) = Len(request.order.items)
                  /\ request.returned.items = request.order.items

\* C18 witness: a create of a two-line order failed at its commit, after the
\* header had been flushed, while another order is stored.
C18_Witness ==
    /\ request # None /\ request.op = "create" /\ request.pc = "done"
    /\ request.error # "none" /\ request.flushes = 1
    /\ Len(request.order.items) = 2
    /\ Len(orders) = 1

\* C20: list_all(skip, limit, customer filter) returns a total equal to the
\* number of stored orders matching the filter, whatever skip and limit,
\* with at most limit orders that all match the filter, for every customer
\* id supplied as filter.
C20_ListAllCountsFiltered ==
    (request # None /\ request.op = "list_all") =>
        LET customer_id == request.args.customer_id
            matches(order) == customer_id = None \/ order.customer_id = customer_id.some
        IN /\ request.returned.total = Cardinality({k \in 1..Len(orders) : matches(orders[k])})
           /\ Len(request.returned.orders) <= request.args.limit
           /\ \A j \in 1..Len(request.returned.orders) : matches(request.returned.orders[j])

\* C13: create_order takes no lock on stock_qty and decrements without a
\* condition -- validation flushes no row and reads the committed stock
\* whatever other sessions hold, the decrement writes the stock read less
\* the quantity whatever the result, and no call is refused for stock once
\* it has passed validation -- so two concurrent calls for the last unit
\* both commit their orders.
C13_NoLockNoConditionalDecrement ==
    /\ [](\A s \in Sessions :
              /\ call[s].pc \in {"customer", "items", "create"} => tx[s] = NoRows
              /\ (Done(s) /\ call[s].result = "InsufficientStockException") =>
                     trace[s].creates = 0)
    /\ [][\A s \in Sessions :
              /\ Len(trace'[s].product_reads) > Len(trace[s].product_reads) =>
                     LET read == trace'[s].product_reads[Len(trace'[s].product_reads)]
                     IN read.product # None =>
                            read.product.stock_qty = products[read.product_id].stock_qty
              /\ (call[s].pc = "fetch" /\ call'[s].pc = "update") =>
                     LET item_data == call[s].order_data.items[call[s].i]
                     IN call'[s].product.stock_qty =
                            Row(s, item_data.product_id).stock_qty - item_data.quantity]_vars

\* C13 witness (the oversell): two calls with distinct keys, begun before
\* any order was stored, each read the single unit of product 2 at
\* validation and each returned its order; two units are sold of one.
C13_Witness ==
    \E s, t \in Sessions :
        /\ s # t /\ Done(s) /\ Done(t)
        /\ call[s].result = "ok" /\ call[t].result = "ok"
        /\ call[s].idempotency_key # call[t].idempotency_key
        /\ trace[s].pre.orders = <<>> /\ trace[t].pre.orders = <<>>
        /\ \A u \in {s, t} :
               /\ call[u].order_data.items[1].product_id = 2
               /\ trace[u].product_reads[1].product.stock_qty = InitStock[2]
        /\ Len(orders) = 2
        /\ Ordered(orders, 2) > InitStock[2]

\* The create of t was refused while s had stored the order of their key,
\* t not being stopped by a storage failure of its own.
LostKeyRace(s, t) ==
    /\ s # t /\ Done(s) /\ Done(t)
    /\ call[s].idempotency_key = call[t].idempotency_key
    /\ ~Replay(s) /\ ~Replay(t)
    /\ call[s].created_order # None
    /\ trace[t].creates = 1 /\ call[t].created_order = None
    /\ call[t].result # "OperationalError"

\* C14: when two concurrent calls carry the same key and both pass the
\* lookup before either commits, at most one order is persisted for the
\* key, stock is decremented for one order at most, and the losing call
\* reports DuplicateIdempotencyKey, not a generic failure.
C14_ConcurrentSameKey ==
    \A s, t \in Sessions :
        (/\ s # t /\ InCall(s) /\ InCall(t)
         /\ call[s].idempotency_key = call[t].idempotency_key
         /\ ~Replay(s) /\ ~Replay(t)) =>
            /\ Cardinality({k \in 1..Len(orders) :
                               orders[k].idempotency_key = call[s].idempotency_key}) <= 1
            /\ \A p \in StoredProducts :
                   InitStock[p] - products[p].stock_qty <= Ordered(orders, p)
            /\ LostKeyRace(s, t) => call[t].result = "DuplicateIdempotencyKeyException"

RECURSIVE FirstFailure(_, _, _)
\* The first line of items, from line k on, that fails on the product rows,
\* and its error: absent before inactive before short of stock; line 0 when
\* every line passes.
FirstFailure(items, rows, k) ==
    IF k > Len(items) THEN [line |-> 0, error |-> "none"]
    ELSE LET p == items[k].product_id
         IN IF p \notin StoredProducts THEN [line |-> k, error |-> "ProductNotFoundException"]
            ELSE IF ~rows[p].is_active THEN [line |-> k, error |-> "ValueError"]
            ELSE IF rows[p].stock_qty < items[k].quantity
            THEN [line |-> k, error |-> "InsufficientStockException"]
            ELSE FirstFailure(items, rows, k + 1)

\* C15: create_order validates in a fixed order and stops at the first
\* failure -- the customer (absent, then inactive) before any product is
\* read, then the lines in submission order, each for absent, inactive,
\* short of stock; the error is that of the first failing check and no
\* product of a later line is read.
C15_ValidationOrder ==
    \A s \in Sessions :
        (InCall(s) /\ ~Replay(s)) =>
            LET order_data == call[s].order_data
                reads == trace[s].product_reads
                first == FirstFailure(order_data.items, trace[s].pre.products, 1)
                customer_error ==
                    IF order_data.customer_id \notin StoredCustomers THEN "CustomerNotFoundException"
                    ELSE IF ~customers[order_data.customer_id].is_active THEN "ValueError"
                    ELSE "none"
            IN /\ Len(trace[s].customer_reads) <= 1
               /\ Len(reads) <= Len(order_data.items)
               /\ \A j \in 1..Len(reads) : reads[j].product_id = order_data.items[j].product_id
               /\ Len(reads) > 0 =>
                      trace[s].customer_reads = <<order_data.customer_id>> /\ customer_error = "none"
               /\ customer_error # "none" =>
                      /\ Len(reads) = 0
                      /\ Done(s) => call[s].result = customer_error
               /\ (customer_error = "none" /\ first.line > 0) =>
                      /\ Len(reads) <= first.line
                      /\ Done(s) => call[s].result = first.error /\ Len(reads) = first.line
               /\ (customer_error = "none" /\ first.line = 0 /\ Done(s)) =>
                      call[s].result \notin {"CustomerNotFoundException", "ProductNotFoundException",
                                             "InsufficientStockException", "ValueError"}

\* C15 witness: the first line passed and the second, of a product that is
\* both inactive and short of stock, was refused as inactive.
C15_Witness ==
    \E s \in Sessions :
        /\ Done(s) /\ ~Replay(s)
        /\ call[s].result = "ValueError"
        /\ Len(call[s].order_data.items) = 2
        /\ Len(trace[s].product_reads) = 2
        /\ LET read == trace[s].product_reads[2]
           IN /\ ~read.product.is_active
              /\ read.product.stock_qty < call[s].order_data.items[2].quantity

Snapshot(order) ==
    [total_amount |-> order.total_amount,
     items |-> [k \in 1..Len(order.items) |->
                   [unit_price |-> order.items[k].unit_price,
                    line_total |-> order.items[k].line_total]]]

Ceil(total, page_size) ==
    CHOOSE n \in 0..total : n * page_size >= total /\ (n = 0 \/ (n - 1) * page_size < total)

\* C21: list_orders(page, page_size) asks the store for skip = (page - 1) x
\* page_size and limit = page_size, and reports total_pages = ceil(total /
\* page_size), for an empty and a non-empty listing alike.
C21_ListOrdersPaging ==
    (request # None /\ request.op = "list_orders") =>
        /\ request.list_all.skip = (request.args.page - 1) * request.args.page_size
        /\ request.list_all.limit = request.args.page_size
        /\ request.list_all.customer_id = request.args.customer_id
        /\ request.returned.total = OrderRepository_list_all(0, 1, request.args.customer_id).total
        /\ request.returned.total_pages = Ceil(request.returned.total, request.args.page_size)
        /\ request.returned.total = 0 => request.returned.total_pages = 0

\* Five orders listed two to a page make three pages; page 2 skips two.
C21_Witness ==
    /\ request # None /\ request.op = "list_orders"
    /\ request.returned.total = 5 /\ request.args.page_size = 2 /\ request.args.page = 2
    /\ request.returned.total_pages = 3 /\ request.list_all.skip = 2
    /\ Len(request.returned.items) = 2

\* ---------------------------------------------------------------- C22
\* C22: no create_order, lifecycle transition or Order Store update changes
\* the idempotency_key of a stored order (nor removes the order), and no two
\* stored orders share an idempotency_key.
C22_KeyImmutableAndUnique ==
    /\ [](\A j, k \in 1..Len(orders) :
             j # k => orders[j].idempotency_key # orders[k].idempotency_key)
    /\ [][/\ Len(orders') >= Len(orders)
          /\ \A k \in 1..Len(orders) :
                 /\ orders'[k].id = orders[k].id
                 /\ orders'[k].idempotency_key = orders[k].idempotency_key]_vars

\* update() has written back an entity that carried the other order's key,
\* after a lifecycle transition was stored, and the row kept its own key.
C22_Witness ==
    /\ Len(orders) = 2
    /\ request # None /\ request.op = "update" /\ request.error = "none"
    /\ request.order.idempotency_key # orders[request.order.id].idempotency_key
    /\ request.returned.idempotency_key = request.pre[request.order.id].idempotency_key
    /\ orders[request.order.id].status # request.pre[request.order.id].status
    /\ \E k \in 1..Len(orders) : k # request.order.id /\ orders[k].status = CANCELLED

\* ---------------------------------------------------------------- C23
\* The product read for line k of the call was active and held less stock
\* than the line asks for.
ShortOfStock(s, k) ==
    LET read == trace[s].product_reads[k]
    IN /\ read.product # None
       /\ read.product.is_active
       /\ read.product.stock_qty < call[s].order_data.items[k].quantity

\* C23: create_order fails with InsufficientStock exactly when the quantity
\* of a line exceeds the stock_qty read for it at validation, and then the
\* stock is unchanged and no order is created; a one-line order for exactly
\* the stock read, once it has succeeded, has left the stock at 0.
C23_InsufficientStockBoundary ==
    \A s \in Sessions :
        (InCall(s) /\ ~Replay(s)) =>
            LET reads == trace[s].product_reads
                items == call[s].order_data.items
            IN /\ call[s].result = "InsufficientStockException"
                      <=> (reads # <<>> /\ ShortOfStock(s, Len(reads)))
               /\ \A k \in 1..(Len(reads) - 1) : ~ShortOfStock(s, k)
               /\ call[s].result = "InsufficientStockException" =>
                      /\ Done(s) /\ StorageAsBefore(s)
                      /\ trace[s].creates = 0 /\ trace[s].updates = 0
                      /\ call[s].returned = None
               /\ (/\ Done(s) /\ call[s].result = "ok" /\ Len(items) = 1
                   /\ reads[1].product.stock_qty = items[1].quantity) =>
                      /\ products[items[1].product_id].stock_qty = 0
                      /\ Len(orders) = Len(trace[s].pre.orders) + 1

\* An order for exactly the stock of a product was stored and left the stock
\* at 0, and the next order, for one unit more than that stock, has failed
\* with InsufficientStock.
C23_Witness ==
    \E s \in Sessions :
        /\ Done(s) /\ ~Replay(s) /\ call[s].result = "InsufficientStockException"
        /\ LET item == call[s].order_data.items[1]
               stock_qty == trace[s].product_reads[1].product.stock_qty
           IN /\ item.quantity = stock_qty + 1
              /\ stock_qty = 0
              /\ products[item.product_id].stock_qty = 0
              /\ \E k \in 1..Len(orders) :
                     /\ orders[k].items[1].product_id = item.product_id
                     /\ orders[k].items[1].quantity = InitStock[item.product_id]

\* ---------------------------------------------------------------- C24
\* C24: whenever no create_order call is in progress, the stock of every
\* product is its initial stock less the quantities of the committed
\* orders, each taken once; so the order a retry returns after a failed
\* first attempt has its stock decrement applied.
C24_RetrySafety ==
    /\ (\A s \in Sessions : call[s].pc \in {"idle", "done"}) =>
           \A p \in StoredProducts : products[p].stock_qty = InitStock[p] - Ordered(orders, p)
    /\ \A s \in Sessions :
           (Done(s) /\ Replay(s) /\ call[s].result = "ok") =>
               \A p \in StoredProducts :
                   SumQuantity(call[s].returned.items, p) <= InitStock[p] - products[p].stock_qty

\* ---------------------------------------------------------------- C25
\* C25: when concurrent create_order calls with distinct keys have all
\* succeeded, and theirs are the only orders, every product's initial stock
\* less its final stock is the quantity the committed orders took of it.
C25_NoLostDecrement ==
    (/\ \A s \in Sessions :
            Done(s) /\ call[s].result = "ok" /\ ~Replay(s) /\ trace[s].creates = 1
     /\ Len(orders) = Cardinality(Sessions)) =>
        \A p \in StoredProducts : InitStock[p] - products[p].stock_qty = Ordered(orders, p)

\* ---------------------------------------------------------------- C26
\* C26: a cancel() or mark_as_paid() that fails leaves the entity's status,
\* items, total_amount and idempotency_key as they were, and the step
\* persists nothing: the stored orders and the stock are as before.
C26_FailedTransitionChangesNothing ==
    [][(/\ entity # None /\ entity' # None
        /\ entity'.op \in {"cancel", "mark_as_paid"}
        /\ entity'.error # "none") =>
           /\ entity'.order.status = entity.order.status
           /\ entity'.order.items = entity.order.items
           /\ entity'.order.total_amount = entity.order.total_amount
           /\ entity'.order.idempotency_key = entity.order.idempotency_key
           /\ entity'.order = entity.order
           /\ orders' = orders
           /\ products' = products]_vars

\* mark_as_paid() was refused on an order stored as CANCELLED, and cancel()
\* is refused on it as well; the entity still equals the stored order.
C26_Witness ==
    /\ entity # None
    /\ entity.op = "mark_as_paid" /\ entity.error # "none"
    /\ entity.before = CANCELLED
    /\ cancel(entity.order).error # "none"
    /\ entity.order = OrderRepository_to_entity(orders[entity.order.id])
    /\ entity.order.items # <<>>

\* ---------------------------------------------------------------- C27
\* C27: deleting a Product or a Customer is a soft delete -- the step of a
\* successful delete leaves the row in place, found by get-by-id, with
\* is_active false and nothing else changed -- and a later create_order
\* with a fresh key that names the record is refused, creates no order and
\* changes no stock.
C27_DeleteIsSoft ==
    /\ [][/\ \A p \in StoredProducts :
                 (products[p].is_active /\ ~products'[p].is_active) =>
                     products'[p] = [products[p] EXCEPT !.is_active = FALSE]
          /\ (/\ request = None /\ request' # None
              /\ request'.op = "delete_customer" /\ request'.returned = TRUE) =>
                 LET c == request'.args.customer_id
                 IN /\ c \in DOMAIN customers'
                    /\ customers'[c] = [customers[c] EXCEPT !.is_active = FALSE]]_vars
    /\ [](\A s \in Sessions :
              (/\ Done(s) /\ ~Replay(s)
               /\ LET order_data == call[s].order_data
                  IN \/ order_data.customer_id \notin DOMAIN customers
                     \/ ~trace[s].pre.products[order_data.items[1].product_id].is_active) =>
                  /\ call[s].result # "ok"
                  /\ trace[s].creates = 0
                  /\ StorageAsBefore(s))

\* ---------------------------------------------------------------- C28
\* C28: a catalog edit is durable -- once update_product has returned the
\* updated product and its session is closed, a read of the product in any
\* session (a later request, the validation and pricing of a later
\* create_order) gives the price, stock_qty and is_active it returned.
C28_CatalogEditIsDurable ==
    [][(/\ request # None /\ request.op = "update_product" /\ request.error = "none"
        /\ request' = None) =>
           \A s \in Sessions, p \in StoredProducts :
               p = request.args.product_id =>
                   ProductRepository_get_by_id(s, p)' = request.returned]_vars

\* ---------------------------------------------------------------- C29
\* The item has a positive product id, unit price and quantity, and its
\* line total is its unit price times its quantity.
WellFormedItem(item) ==
    /\ item.product_id > 0
    /\ item.unit_price > 0
    /\ item.quantity > 0
    /\ item.line_total = item.unit_price * item.quantity

\* C29: OrderItemEntity.validate() accepts an item exactly when product_id,
\* unit_price and quantity are positive and line_total is unit_price x
\* quantity, and every item create_order hands to OrderRepository.create,
\* and every item stored, passes that check.
C29_ItemValidation ==
    /\ (request # None /\ request.op = "validate") =>
           /\ request.error \in {"none", "ValueError"}
           /\ request.error = "none" <=> WellFormedItem(request.order)
    /\ \A s \in Sessions :
           trace[s].handed # None =>
               \A k \in 1..Len(trace[s].handed.items) : WellFormedItem(trace[s].handed.items[k])
    /\ \A j \in 1..Len(orders) :
           \A k \in 1..Len(orders[j].items) : WellFormedItem(orders[j].items[k])

\* validate() has refused an item whose only fault is its line total, while
\* an order of two lines that create_order handed to create is stored.
C29_Witness ==
    /\ request # None /\ request.op = "validate" /\ request.error = "ValueError"
    /\ request.order.product_id > 0 /\ request.order.unit_price > 0
    /\ request.order.quantity > 0
    /\ request.order.line_total # request.order.unit_price * request.order.quantity
    /\ Len(orders) = 1 /\ Len(orders[1].items) = 2

\* ---------------------------------------------------------------- C30
\* The call would give its customer a document whose digits are those of
\* another customer's stored document.
DocumentClash ==
    \E c \in DOMAIN request.pre :
        /\ c # request.order.id
        /\ format_document(request.pre[c].document) = format_document(request.order.document)

\* The call's email belongs to another stored customer (the check made
\* before the document's).
EmailClash ==
    \E c \in DOMAIN request.pre : c # request.order.id /\ request.pre[c].email = request.order.email

====
